---- MODULE Spec2Model ----
(***************************************************************************)
(* Model of the ZTE router client of ha-zte-ng-router:                     *)
(*   zte_api.py   ZteRouterApi (session, login, call_ubus, update_all,     *)
(*                band helpers)                                            *)
(*   __init__.py  the coordinator's poll, which runs update_all in an      *)
(*                executor thread                                          *)
(* The router is the environment: every HTTP request is answered by a      *)
(* response drawn from a bounded set of response shapes.                   *)
(***************************************************************************)
EXTENDS Integers, Sequences, FiniteSets, TLC

\* ------------------------------------------------------------------ bounds
\* Threads of the executor pool that may run update_all on one client.
MaxCallers == 2
\* Session tokens the router hands out before it stops accepting logins.
MaxTokens == 2
MaxWorkTokens == 5
MaxSubmissions == 3

Callers == 1 .. MaxCallers

\* ------------------------------------------------------- program constants
\* The ubus error code for "access denied" (session invalid).
AccessDenied == -32002
\* "0" * 32, the placeholder session: tokens are 1, 2, ... and 0 stands for
\* the placeholder in a request and for None in self._session_id.
Placeholder == 0
\* The configured password (self.password).
Password == "secret"

\* ------------------------------------------------------------ JSON values
\* A field of the network-info mapping.  k is the JSON shape of the value and
\* v its numeric value in tenths (0 when the value is not numeric):
\*   missing  key absent (dict.get gives None)     null    JSON null
\*   int      JSON integer                         float   JSON non-integer
\*   intstr   string holding an integer literal    decstr  string with a decimal
\*   text     any other string                     list    a JSON array
Fld(k, v) == [k |-> k, v |-> v]
Missing == Fld("missing", 0)

NoNet ==
  [lte_action_channel |-> Missing, lte_bandwidth |-> Missing,
   nr5g_action_channel |-> Missing, nr5g_bandwidth |-> Missing]

\* The data element of a result, result[1]:
\*   t      "null" | "obj" | "list" (non-empty array) | "emptylist"
\*   salt   value of key zte_web_sault: "absent", "" or a salt string, or
\*          "num" for a JSON number
\*   sid    value of key ubus_rpc_session: a token, 0 when absent
\*   other  whether the object has any other key
\*   net    the four network-info fields the band summary reads
Data(t, salt, sid, other, net) ==
  [t |-> t, salt |-> salt, sid |-> sid, other |-> other, net |-> net]
DNull == Data("null", "absent", 0, FALSE, NoNet)
DEmptyObj == Data("obj", "absent", 0, FALSE, NoNet)
DOther == Data("obj", "absent", 0, TRUE, NoNet)
DList == Data("list", "absent", 0, FALSE, NoNet)
DEmptyList == Data("emptylist", "absent", 0, FALSE, NoNet)
DSalt(s) == Data("obj", s, 0, FALSE, NoNet)
DSid(n) == Data("obj", "absent", n, FALSE, NoNet)
DNet(net) == Data("obj", "absent", 0, FALSE, net)

\* Python truthiness of a data value: None, {} and [] are falsy.
Truthy(d) ==
  \/ d.t = "list"
  \/ d.t = "obj" /\ d # DEmptyObj

\* `x or {}` (zte_api.py:184, 204, 317).
OrEmptyDict(d) == IF Truthy(d) THEN d ELSE DEmptyObj

\* Whether `.get` exists on the value: only a dict has it.
HasGet(d) == d.t = "obj"

\* ------------------------------------------------------------ band helpers
\* hashlib.sha256(text).hexdigest().upper(), kept symbolic: an injective
\* function of its text.
sha256(text) == "H(" \o text \o ")"

\* Mutant: the password and the salt are hashed in one stage.
FinalHash_OneStage(password, salt) == sha256(password \o salt)

\* The login hash SHA256(SHA256(password) + salt) of login().
FinalHash(password, salt) == sha256(sha256(password) \o salt)

\* (band, n_min, n_max), in the order of the source.
lte_bands ==
  << <<1, 0, 599>>, <<3, 1200, 1949>>, <<4, 1950, 2399>>, <<5, 2400, 2649>>,
     <<7, 2750, 3449>>, <<8, 3450, 3799>>, <<20, 6150, 6449>>,
     <<28, 9210, 9659>>, <<32, 9920, 10359>>, <<38, 37750, 38249>>,
     <<40, 38650, 39649>>, <<42, 41590, 43589>>, <<43, 43590, 45589>> >>

nr_bands ==
  << <<1, 422000, 434000>>, <<3, 361000, 376000>>, <<5, 173800, 178800>>,
     <<7, 524000, 538000>>, <<8, 185000, 192000>>, <<28, 151600, 160600>>,
     <<40, 460000, 480000>>, <<41, 499200, 537999>>, <<75, 286400, 303400>>,
     <<78, 620000, 653333>>, <<79, 693334, 733333>> >>

\* An optional integer: int(x) under try/except, or a band or None.
Some(n) == [ok |-> TRUE, n |-> n]
None == [ok |-> FALSE, n |-> 0]

\* Mutant: the last range that holds the channel wins.
FirstBand_Last(table, ch) ==
  LET hits == {i \in 1 .. Len(table) : table[i][2] <= ch /\ ch <= table[i][3]}
  IN  IF hits = {} THEN None
      ELSE Some(table[CHOOSE i \in hits : \A j \in hits : i >= j][1])

\* The loop `for band, nmin, nmax in table: if nmin <= ch <= nmax: return band`.
FirstBand(table, ch) ==
  LET hits == {i \in 1 .. Len(table) : table[i][2] <= ch /\ ch <= table[i][3]}
  IN  IF hits = {} THEN None
      ELSE Some(table[CHOOSE i \in hits : \A j \in hits : i <= j][1])

_convert_lte_earfcn_to_band(earfcn) ==
  IF ~earfcn.ok THEN None ELSE FirstBand(lte_bands, earfcn.n)

_convert_nr_arfcn_to_band(arfcn) ==
  IF ~arfcn.ok THEN None ELSE FirstBand(nr_bands, arfcn.n)

\* int(x) of a field under `except (TypeError, ValueError)`: a JSON integer
\* or an integer literal gives its value, a JSON float is truncated towards
\* zero, everything else (None, a decimal or other string, a list) is None.
IntOf(f) ==
  CASE f.k \in {"int", "intstr"} -> Some(f.v \div 10)
    [] f.k = "float" ->
         Some(IF f.v >= 0 THEN f.v \div 10 ELSE -((-f.v) \div 10))
    [] OTHER -> None

\* float(x) of a field under `except (TypeError, ValueError)`, in tenths.
FloatOf(f) ==
  IF f.k \in {"int", "float", "intstr", "decstr"} THEN Some(f.v) ELSE None

\* Mutant: the labels are joined without the spaces.
JoinBands_Tight(bands) ==
  CASE Len(bands) = 0 -> "-"
    [] Len(bands) = 1 -> bands[1]
    [] OTHER -> bands[1] \o "+" \o bands[2]

\* " + ".join(bands) if bands else "-"
JoinBands(bands) ==
  CASE Len(bands) = 0 -> "-"
    [] Len(bands) = 1 -> bands[1]
    [] OTHER -> bands[1] \o " + " \o bands[2]

\* Mutant: a technology's bandwidth is counted only when its band is known.
_compute_bands_and_bw_Labelled(net) ==
  LET lte_earfcn == IntOf(net.lte_action_channel)
      lte_bw == FloatOf(net.lte_bandwidth)
      lb == _convert_lte_earfcn_to_band(lte_earfcn)
      lte_on == lte_earfcn.ok /\ lte_bw.ok /\ lte_bw.n > 0 /\ lb.ok
      nr_arfcn == IntOf(net.nr5g_action_channel)
      nr_bw == FloatOf(net.nr5g_bandwidth)
      nb == _convert_nr_arfcn_to_band(nr_arfcn)
      nr_on == nr_arfcn.ok /\ nr_bw.ok /\ nr_bw.n > 0 /\ nb.ok
      bands ==
        (IF lte_on THEN <<"B" \o ToString(lb.n)>> ELSE <<>>)
        \o (IF nr_on THEN <<"N" \o ToString(nb.n)>> ELSE <<>>)
  IN  [bands_summary |-> JoinBands(bands),
       total_bw_mhz |-> (IF lte_on THEN lte_bw.n ELSE 0)
                        + (IF nr_on THEN nr_bw.n ELSE 0)]

\* _compute_bands_and_bw on a mapping: the summary string and the total
\* bandwidth in tenths of a MHz.
_compute_bands_and_bw(net) ==
  LET lte_earfcn == IntOf(net.lte_action_channel)
      lte_bw == FloatOf(net.lte_bandwidth)
      lte_on == lte_earfcn.ok /\ lte_bw.ok /\ lte_bw.n > 0
      lb == _convert_lte_earfcn_to_band(lte_earfcn)
      nr_arfcn == IntOf(net.nr5g_action_channel)
      nr_bw == FloatOf(net.nr5g_bandwidth)
      nr_on == nr_arfcn.ok /\ nr_bw.ok /\ nr_bw.n > 0
      nb == _convert_nr_arfcn_to_band(nr_arfcn)
      bands ==
        (IF lte_on /\ lb.ok THEN <<"B" \o ToString(lb.n)>> ELSE <<>>)
        \o (IF nr_on /\ nb.ok THEN <<"N" \o ToString(nb.n)>> ELSE <<>>)
  IN  [bands_summary |-> JoinBands(bands),
       total_bw_mhz |-> (IF lte_on THEN lte_bw.n ELSE 0)
                        + (IF nr_on THEN nr_bw.n ELSE 0)]

\* ------------------------------------------------------------ the router
\* One HTTP exchange as the client sees it:
\*   http    "ok" | "conn_error" | "timeout" | "bad_status" (raise_for_status)
\*   body    "none" (no body read), "not_json", "empty_array" ([]),
\*           "top_object" (a JSON object instead of the array),
\*           "elem_not_object" ([5]), "error" ([{"error": {code, message}}]),
\*           "error_not_object" ([{"error": "x"}]), "no_result" ([{}]),
\*           "result_object" ([{"result": {"a": 1}}]),
\*           "result_string" ([{"result": "x"}]),
\*           "result_short" ([{"result": [status]}]),
\*           "result" ([{"result": [status, data]}])
Resp(http, body, code, status, data) ==
  [http |-> http, body |-> body, code |-> code, status |-> status, data |-> data]
HttpFail(h) == Resp(h, "none", 0, 0, DNull)
Malformed(b) == Resp("ok", b, 0, 0, DNull)
ErrorReply(code) == Resp("ok", "error", code, 0, DNull)
ShortResult(status) == Resp("ok", "result_short", 0, status, DNull)
ResultReply(status, d) == Resp("ok", "result", 0, status, d)

\* Router error codes other than access denied.
OtherCodes == {-32601}

\* The telemetry calls of update_all, in the order it issues them.
Calls ==
  << "zte_nwinfo_api.nwinfo_get_netinfo", "zwrt_bsp.thermal.get_cpu_temp",
     "zwrt_mc.device.manager.get_device_info", "zwrt_router.api.router_get_status" >>

\* Salts the router hands out.
Salts == {"S1", "S2"}

\* Network-info payloads the router reports: LTE only (B3, 20 MHz).
NetLte ==
  [lte_action_channel |-> Fld("intstr", 13000), lte_bandwidth |-> Fld("decstr", 200),
   nr5g_action_channel |-> Missing, nr5g_bandwidth |-> Missing]

\* Answers that do not carry a successful result.  "full" is every shape the
\* transport code distinguishes; "work" is one answer of each kind of
\* outcome (failure, exception, recovery); "core" is the subset kept when
\* two callers are interleaved.
FailedReplies(lvl) ==
  {ErrorReply(AccessDenied)}
  \cup (IF lvl = "work"
        THEN {HttpFail("timeout"), Malformed("result_object"),
              ResultReply(1, DNull)}
        ELSE {})
  \cup (IF lvl = "full"
        THEN {ErrorReply(c) : c \in OtherCodes}
             \cup {HttpFail("conn_error"), HttpFail("timeout"), HttpFail("bad_status"), Malformed("not_json"),
              Malformed("empty_array"), Malformed("top_object"),
              Malformed("elem_not_object"), Malformed("error_not_object"),
              Malformed("no_result"), Malformed("result_object"),
              Malformed("result_string"), ShortResult(0), ShortResult(1),
              ResultReply(1, DNull)}
        ELSE {})

\* The data of a status-0 answer, by the kind of request it answers.
\* n is the next token the router would issue (0: it issues none).
ReplyData(req, lvl, n) ==
  CASE req = "web_login_info" ->
         IF lvl = "full"
         THEN {DSalt(s) : s \in Salts}
              \cup {DSalt(""), DSalt("num"), DNull, DList, DEmptyObj}
         ELSE {DSalt("S1")} \cup (IF lvl = "work" THEN {DNull} ELSE {})
    [] req = "web_login" ->
         (IF n > 0 THEN {DSid(n)} ELSE {})
         \cup (IF lvl = "full" THEN {DNull, DList, DEmptyObj} ELSE {})
         \cup (IF lvl = "work" THEN {DNull} ELSE {})
    [] OTHER ->
         {DNet(NetLte)}
         \cup (IF lvl = "full" THEN {DNull, DList} ELSE {})
         \cup (IF lvl = "work" THEN {DList} ELSE {})

Replies(req, lvl, n) ==
  FailedReplies(lvl) \cup {ResultReply(0, d) : d \in ReplyData(req, lvl, n)}

\* ----------------------------------------------------- call_ubus, one pass
\* The dict call_ubus returns.  None and JSON null are the same value.
Result(success, data) == [success |-> success, data |-> data]
Failure == Result(FALSE, DNull)

\* What one pass through call_ubus does with the response to its POST:
\* return a dict, raise, or go into the access-denied recovery.
Returns(r) == [kind |-> "return", result |-> r, exc |-> "none"]
Raises(e) == [kind |-> "raise", result |-> Failure, exc |-> e]
Recover == [kind |-> "relogin", result |-> Failure, exc |-> "none"]

\* Mutant: the retry forgets retry_on_access_denied=False.
AccessDeniedRetry_NoFlag(code, retry_on_access_denied) == code = AccessDenied

\* Mutant: every router error starts the recovery.
AccessDeniedRetry_AnyCode(code, retry_on_access_denied) ==
  retry_on_access_denied

\* Whether the error branch enters the re-login (zte_api.py:269).
AccessDeniedRetry(code, retry_on_access_denied) ==
  code = AccessDenied /\ retry_on_access_denied

call_ubus_pass(resp, retry_on_access_denied) ==
  IF resp.http # "ok" THEN Returns(Failure)
  ELSE IF resp.body \in {"not_json", "empty_array", "top_object"}
    THEN Returns(Failure)
  ELSE IF resp.body = "elem_not_object" THEN Raises("TypeError")
  ELSE IF resp.body = "error_not_object" THEN Raises("AttributeError")
  ELSE IF resp.body = "error"
    THEN IF AccessDeniedRetry(resp.code, retry_on_access_denied)
         THEN Recover ELSE Returns(Failure)
  ELSE IF resp.body \in {"no_result", "result_string"} THEN Returns(Failure)
  ELSE IF resp.body = "result_object" THEN Raises("KeyError")
  ELSE IF resp.body = "result_short"
    THEN IF resp.status = 0 THEN Raises("IndexError") ELSE Returns(Failure)
  ELSE IF resp.status = 0 THEN Returns(Result(TRUE, resp.data))
  ELSE Returns(Failure)

\* ------------------------------------------------------------------ state
VARIABLES
  session_id,   \* self._session_id: a token, or 0 for None
  logged_in,    \* self._logged_in
  issued,       \* router: number of tokens handed out so far
  lastAuth,     \* the latest finished login: how it ended and who called it
  pc,           \* per caller: where its thread stands
  loc,          \* per caller: the locals of its frames
  obs,          \* per caller: what an observer of the thread has seen
  fn,           \* the latest call of a stateless helper: name, argument, result
  prev,         \* the band resolver call before it
  entry,        \* the config entry: its data and its options
  api,          \* what async_setup_entry built the client and coordinator with
  forms         \* the options forms submitted so far, oldest first

vars == <<session_id, logged_in, issued, lastAuth, pc, loc, obs, fn, prev,
          entry, api, forms>>

\* The integration's part of Home Assistant's state.
hass == <<entry, api, forms>>

\* No config entry has been created; nothing has been set up.
NoEntry == [data |-> <<>>, options |-> <<>>]
NoApi == [base_url |-> "", password |-> <<>>, verify_tls |-> FALSE,
          update_interval |-> 0]

\* No helper has been called.
NoCall == [name |-> "none", arg |-> 0, ret |-> 0]

\* Locals: op is the method the host called, ctx the caller of the running
\* login ("ua": update_all, "relogin": call_ubus, "direct": the host), idx the
\* telemetry call in progress, res the results of the calls done, salt and sid
\* the values login() read from its two responses.
IdleLoc ==
  [op |-> "none", ctx |-> "none", idx |-> 0, res |-> <<>>, salt |-> "",
   sid |-> 0]

\* A request on the wire.
Req(m, call, sid, pw) == [m |-> m, call |-> call, sid |-> sid, pw |-> pw]
GetReq == Req("GET", "/", 0, "")
PostReq(call, sid, pw) == Req("POST", call, sid, pw)

NoResp == Resp("none", "none", 0, 0, DNull)
NoSnap ==
  [netinfo |-> DNull, thermal |-> DNull, device |-> DNull, wan |-> DNull,
   bands_summary |-> "", total_bw_mhz |-> 0]
NoOutcome == [status |-> "none", exc |-> "none", snap |-> NoSnap, res |-> <<>>]
NoAuth == [how |-> "none", ctx |-> "none"]

\* The running or latest login of a thread: the salt that the response to
\* web_login_info carried ("absent" when it carried none) and the session
\* that the response to web_login carried (0 when it carried none), the
\* session state when the login started, and how it ended ("running", "ok",
\* "failed").
NoLogin ==
  [salt |-> "absent", sid |-> 0, sid0 |-> 0, flag0 |-> FALSE, done |-> "none"]

\* The value a status-0 result carries under a key of its data; a response
\* that is no such result carries none.
Offered(resp) ==
  IF resp.http = "ok" /\ resp.body = "result" /\ resp.status = 0
  THEN resp.data ELSE DNull

\* Observations of one thread:
\*   op        the operation the host called
\*   prelog    requests of the operation's own login (update_all's initial
\*             one, or a login the host called)
\*   culog     requests of the latest telemetry call_ubus invocation
\*   first     the response to that invocation's first attempt
\*   last      the response to its latest attempt
\*   cu        "none" | "running" | "returned" | "raised" for that invocation
\*   curesult  what it returned
\*   relogin   "none" | "running" | "ok" | "failed": its re-login
\*   wiped     the value of self._session_id that its recovery cleared
\*   lg        the running or latest login
\*   startAuth self._logged_in as update_all read it
\*   prevAuth  lastAuth when the operation started
\*   initial   update_all's initial login: "none" | "ok" | "failed"
\*   tried     some login was attempted during the operation
\*   won       some login of the operation succeeded
\*   outcome   how the operation ended
\*   sent      the telemetry calls the operation has issued, in order
\*   posts     the POST requests the operation has sent
\*   logins    the calls of login() the operation has made
IdleObs ==
  [op |-> "none", prelog |-> <<>>, culog |-> <<>>, first |-> NoResp,
   last |-> NoResp, cu |-> "none", curesult |-> Failure,
   relogin |-> "none", wiped |-> 0, lg |-> NoLogin, startAuth |-> FALSE,
   prevAuth |-> NoAuth, initial |-> "none", tried |-> FALSE, won |-> FALSE,
   outcome |-> NoOutcome, sent |-> <<>>,
   posts |-> 0, logins |-> 0]

Init ==
  /\ session_id = 0
  /\ logged_in = FALSE
  /\ issued = 0
  /\ lastAuth = NoAuth
  /\ pc = [t \in Callers |-> "idle"]
  /\ loc = [t \in Callers |-> IdleLoc]
  /\ obs = [t \in Callers |-> IdleObs]
  /\ fn = NoCall
  /\ prev = NoCall
  /\ entry = NoEntry
  /\ api = NoApi
  /\ forms = <<>>

\* ------------------------------------------------------- control transfers
\* Thread t goes to location p with locals l and observations o.
Goto(t, p, l, o) ==
  /\ pc' = [pc EXCEPT ![t] = p]
  /\ loc' = [loc EXCEPT ![t] = l]
  /\ obs' = [obs EXCEPT ![t] = o]
  /\ UNCHANGED <<fn, prev, hass>>

\* The operation of thread t ends: it returns (update_all: the snapshot
\* snap, built from the results res), or raises exc.
Finish(t, o, status, exc, snap, res) ==
  Goto(t, "idle", IdleLoc,
       [o EXCEPT !.outcome =
          [status |-> status, exc |-> exc, snap |-> snap, res |-> res]])

\* The telemetry call_ubus of thread t returns r: to update_all, which stores
\* it and goes on to its next call (zte_api.py:304-315), or to the host.
CallReturns(t, l, o, r) ==
  IF l.op = "call_ubus"
  THEN Finish(t, [o EXCEPT !.cu = "returned", !.curesult = r],
              "returned", "none", NoSnap, <<r>>)
  ELSE Goto(t, IF l.idx = Len(Calls) THEN "ua_return" ELSE "call",
            [l EXCEPT !.res = Append(l.res, r), !.idx = l.idx + 1,
                      !.ctx = "none"],
            [o EXCEPT !.cu = "returned", !.curesult = r])

\* The telemetry call_ubus raises; update_all has no handler, so it raises too.
CallRaises(t, l, o, exc) ==
  Finish(t, [o EXCEPT !.cu = "raised"], "raised", exc, NoSnap, l.res)

\* Appends a request to the log of the login's caller.
Logged(l, o, rq) ==
  LET n == IF rq.m = "POST" THEN o.posts + 1 ELSE o.posts
  IN  IF l.ctx = "relogin"
      THEN [o EXCEPT !.culog = Append(o.culog, rq), !.posts = n]
      ELSE [o EXCEPT !.prelog = Append(o.prelog, rq), !.posts = n]

\* Mutant: update_all swallows the exception of its initial login and goes
\* on to the telemetry calls.
LoginRaises_Swallow(t, l, o, exc) ==
  /\ lastAuth' = [how |-> "failed", ctx |-> l.ctx]
  /\ CASE l.ctx = "relogin" ->
            CallReturns(t, l, [o EXCEPT !.relogin = "failed", !.lg.done = "failed"],
                        Result(FALSE, DNull))
       [] l.ctx = "ua" ->
            Goto(t, "call", [l EXCEPT !.ctx = "none"],
                 [o EXCEPT !.lg.done = "failed", !.initial = "failed"])
       [] OTHER ->
            Finish(t, [o EXCEPT !.lg.done = "failed"], "raised", exc, NoSnap, <<>>)

\* login() raises exc: update_all and the host let it through, call_ubus
\* catches it and returns a failure (zte_api.py:275-280).
LoginRaises(t, l, o, exc) ==
  /\ lastAuth' = [how |-> "failed", ctx |-> l.ctx]
  /\ IF l.ctx = "relogin"
     THEN CallReturns(t, l, [o EXCEPT !.relogin = "failed", !.lg.done = "failed"],
                      Result(FALSE, DNull))
     ELSE Finish(t, [o EXCEPT !.lg.done = "failed",
                              !.initial = IF l.ctx = "ua" THEN "failed" ELSE @],
                 "raised", exc, NoSnap, <<>>)

\* ---------------------------------------------------------------- actions
\* Mutant: update_all goes to its telemetry calls without looking at
\* self._logged_in.
UpdateAllStart_NoLogin(t) ==
  /\ pc[t] = "idle"
  /\ Goto(t, "call", [IdleLoc EXCEPT !.op = "update_all", !.idx = 1],
          [IdleObs EXCEPT !.op = "update_all", !.startAuth = logged_in,
                          !.prevAuth = lastAuth])
  /\ UNCHANGED <<session_id, logged_in, issued, lastAuth>>

\* The coordinator's poll (__init__.py:63-72) runs api.update_all in an
\* executor thread; update_all reads self._logged_in and either starts the
\* initial login or goes to its first telemetry call (zte_api.py:300-302).
UpdateAllStart(t) ==
  /\ pc[t] = "idle"
  /\ LET l == [IdleLoc EXCEPT !.op = "update_all", !.idx = 1]
         o == [IdleObs EXCEPT !.op = "update_all", !.startAuth = logged_in,
                              !.prevAuth = lastAuth]
     IN  IF ~logged_in
         THEN Goto(t, "init_get", [l EXCEPT !.ctx = "ua"], o)
         ELSE Goto(t, "call", l, o)
  /\ UNCHANGED <<session_id, logged_in, issued, lastAuth>>

\* The state of a login that starts now.
NewLogin == [NoLogin EXCEPT !.sid0 = session_id, !.flag0 = logged_in,
                            !.done = "running"]

\* The host calls login() itself (it is a public method of the client).
LoginStart(t) ==
  /\ pc[t] = "idle"
  /\ Goto(t, "login_info", [IdleLoc EXCEPT !.op = "login", !.ctx = "direct"],
          [IdleObs EXCEPT !.op = "login", !.prevAuth = lastAuth,
                          !.lg = NewLogin, !.tried = TRUE, !.logins = 1])
  /\ UNCHANGED <<session_id, logged_in, issued, lastAuth>>

\* A caller invokes call_ubus itself with the network-info call and the
\* default arguments (session_id=None, retry_on_access_denied=True).
CallStart(t) ==
  /\ pc[t] = "idle"
  /\ Goto(t, "call", [IdleLoc EXCEPT !.op = "call_ubus", !.idx = 1],
          [IdleObs EXCEPT !.op = "call_ubus", !.prevAuth = lastAuth])
  /\ UNCHANGED <<session_id, logged_in, issued, lastAuth>>

\* init_session: a new requests.Session and a GET of the start page; a
\* failure of the GET is logged and swallowed (zte_api.py:153-167).  login()
\* is called next.
init_session(t) ==
  /\ pc[t] = "init_get"
  /\ \E ok \in BOOLEAN :
       Goto(t, "login_info", loc[t],
            [Logged(loc[t], obs[t], GetReq)
               EXCEPT !.lg = NewLogin, !.tried = TRUE,
                      !.logins = obs[t].logins + 1])
  /\ UNCHANGED <<session_id, logged_in, issued, lastAuth>>

\* Mutant: login() goes on without checking the salt.
SaltOf_NoCheck(r) ==
  [exc |-> "none", salt |-> OrEmptyDict(r.data).salt]

\* What login() does with the result of web_login_info (zte_api.py:184-191):
\* the salt, or the exception it raises.
SaltOf(r) ==
  LET data == OrEmptyDict(r.data)
  IN  IF ~HasGet(data) THEN [exc |-> "AttributeError", salt |-> ""]
      ELSE IF data.salt \in {"absent", ""}
        THEN [exc |-> "RuntimeError", salt |-> ""]
      ELSE IF data.salt = "num" THEN [exc |-> "TypeError", salt |-> ""]
      ELSE [exc |-> "none", salt |-> data.salt]

\* login(), step 1: POST web_login_info with the placeholder session and no
\* retry, then read the salt (zte_api.py:173-187).
login_info(t, lvl) ==
  /\ pc[t] = "login_info"
  /\ \E resp \in Replies("web_login_info", lvl, 0) :
       LET l == loc[t]
           o == [Logged(l, obs[t], PostReq("web_login_info", Placeholder, ""))
                   EXCEPT !.lg.salt = Offered(resp).salt]
           a == call_ubus_pass(resp, FALSE)
           s == SaltOf(a.result)
       IN  IF a.kind = "raise" THEN LoginRaises(t, l, o, a.exc)
           ELSE IF s.exc # "none" THEN LoginRaises(t, l, o, s.exc)
           ELSE /\ Goto(t, "login_post", [l EXCEPT !.salt = s.salt], o)
                /\ UNCHANGED lastAuth
  /\ UNCHANGED <<session_id, logged_in, issued>>

\* The number of tokens the router hands out: enough for every login of one
\* update_all where a single poll is followed to its end.
TokenCap(lvl) == IF lvl = "work" THEN MaxWorkTokens ELSE MaxTokens

\* What login() does with the result of web_login (zte_api.py:204-207).
SidOf(r) ==
  LET d == OrEmptyDict(r.data)
  IN  IF ~HasGet(d) THEN [exc |-> "AttributeError", sid |-> 0]
      ELSE IF d.sid = 0 THEN [exc |-> "RuntimeError", sid |-> 0]
      ELSE [exc |-> "none", sid |-> d.sid]

\* login(), steps 2 and 3: hash the password with the salt, POST web_login
\* with the placeholder session and no retry, read ubus_rpc_session
\* (zte_api.py:189-207).  A status-0 answer that carries a session is a token
\* the router has issued.
web_login(t, lvl) ==
  /\ pc[t] = "login_post"
  /\ \E resp \in Replies("web_login", lvl,
                         IF issued < TokenCap(lvl) THEN issued + 1 ELSE 0) :
       LET l == loc[t]
           o == [Logged(l, obs[t],
                        PostReq("web_login", Placeholder,
                                FinalHash(Password, l.salt)))
                   EXCEPT !.lg.sid = Offered(resp).sid]
           a == call_ubus_pass(resp, FALSE)
           s == SidOf(a.result)
       IN  /\ issued' = IF resp.data.sid > 0 THEN resp.data.sid ELSE issued
           /\ IF a.kind = "raise" THEN LoginRaises(t, l, o, a.exc)
              ELSE IF s.exc # "none" THEN LoginRaises(t, l, o, s.exc)
              ELSE /\ Goto(t, "store_sid", [l EXCEPT !.sid = s.sid], o)
                   /\ UNCHANGED lastAuth
  /\ UNCHANGED <<session_id, logged_in>>

\* Mutant: login() sets the flag without storing the token.
StoreSid_Skip(t) ==
  /\ pc[t] = "store_sid"
  /\ Goto(t, "store_flag", loc[t], obs[t])
  /\ UNCHANGED <<session_id, logged_in, issued, lastAuth>>

\* self._session_id = sid (zte_api.py:209).
StoreSid(t) ==
  /\ pc[t] = "store_sid"
  /\ session_id' = loc[t].sid
  /\ Goto(t, "store_flag", loc[t], obs[t])
  /\ UNCHANGED <<logged_in, issued, lastAuth>>

\* Mutant: after the re-login the call is made again with recovery allowed.
StoreFlag_RetryOpen(t) ==
  /\ pc[t] = "store_flag"
  /\ logged_in' = TRUE
  /\ lastAuth' = [how |-> "ok", ctx |-> loc[t].ctx]
  /\ LET o == [obs[t] EXCEPT !.lg.done = "ok", !.won = TRUE]
     IN  CASE loc[t].ctx = "ua" ->
                Goto(t, "call", [loc[t] EXCEPT !.ctx = "none"],
                     [o EXCEPT !.initial = "ok"])
           [] loc[t].ctx = "relogin" ->
                Goto(t, "call", loc[t], [o EXCEPT !.relogin = "ok"])
           [] OTHER -> Finish(t, o, "returned", "none", NoSnap, <<>>)
  /\ UNCHANGED <<session_id, issued>>

\* self._logged_in = True, and login() returns to its caller
\* (zte_api.py:210): update_all goes to its first call, call_ubus to the retry.
StoreFlag(t) ==
  /\ pc[t] = "store_flag"
  /\ logged_in' = TRUE
  /\ lastAuth' = [how |-> "ok", ctx |-> loc[t].ctx]
  /\ LET o == [obs[t] EXCEPT !.lg.done = "ok", !.won = TRUE]
     IN  CASE loc[t].ctx = "ua" ->
                Goto(t, "call", [loc[t] EXCEPT !.ctx = "none"],
                     [o EXCEPT !.initial = "ok"])
           [] loc[t].ctx = "relogin" ->
                Goto(t, "retry", loc[t], [o EXCEPT !.relogin = "ok"])
           [] OTHER -> Finish(t, o, "returned", "none", NoSnap, <<>>)
  /\ UNCHANGED <<session_id, issued>>

\* Mutant: every telemetry request carries the placeholder.
Carried_Placeholder(sid) == Placeholder

\* The session a request carries: `session_id or "0" * 32` (zte_api.py:233).
Carried(sid) == IF sid = 0 THEN Placeholder ELSE sid

\* What call_ubus does after one pass: return to the caller, raise, or clear
\* the session and start the re-login (zte_api.py:269-285).
AfterPass(t, l, o, a) ==
  CASE a.kind = "return" -> CallReturns(t, l, o, a.result)
    [] a.kind = "raise" -> CallRaises(t, l, o, a.exc)
    [] OTHER -> Goto(t, "clear_flag", l, o)

\* A telemetry call_ubus, first attempt: session_id defaults to
\* self._session_id, the POST is sent and its response handled
\* (zte_api.py:224-292).  On -32002 the recovery starts.
call_ubus(t, lvl) ==
  /\ pc[t] = "call"
  /\ \E resp \in Replies(Calls[loc[t].idx], lvl, 0) :
       AfterPass(t, loc[t],
                 [obs[t] EXCEPT
                    !.culog = <<PostReq(Calls[loc[t].idx], Carried(session_id), "")>>,
                    !.first = resp, !.last = resp, !.cu = "running",
                    !.curesult = Result(FALSE, DNull), !.relogin = "none",
                    !.wiped = 0, !.lg = NoLogin,
                    !.sent = Append(obs[t].sent, Calls[loc[t].idx]),
                    !.posts = obs[t].posts + 1],
                 call_ubus_pass(resp, TRUE))
  /\ UNCHANGED <<session_id, logged_in, issued, lastAuth>>

\* Mutant: the recovery leaves the authenticated flag set.
ClearFlag_Keeps(t) ==
  /\ pc[t] = "clear_flag"
  /\ Goto(t, "clear_sid", loc[t], obs[t])
  /\ UNCHANGED <<session_id, logged_in, issued, lastAuth>>

\* self._logged_in = False (zte_api.py:272).
ClearFlag(t) ==
  /\ pc[t] = "clear_flag"
  /\ logged_in' = FALSE
  /\ Goto(t, "clear_sid", loc[t], obs[t])
  /\ UNCHANGED <<session_id, issued, lastAuth>>

\* Mutant: the recovery keeps the token.
ClearSid_Keeps(t) ==
  /\ pc[t] = "clear_sid"
  /\ Goto(t, "init_get", [loc[t] EXCEPT !.ctx = "relogin"],
          [obs[t] EXCEPT !.relogin = "running", !.wiped = session_id])
  /\ UNCHANGED <<session_id, logged_in, issued, lastAuth>>

\* self._session_id = None, then the re-login starts (zte_api.py:273-277).
ClearSid(t) ==
  /\ pc[t] = "clear_sid"
  /\ session_id' = 0
  /\ Goto(t, "init_get", [loc[t] EXCEPT !.ctx = "relogin"],
          [obs[t] EXCEPT !.relogin = "running", !.wiped = session_id])
  /\ UNCHANGED <<logged_in, issued, lastAuth>>

\* Mutant: a retry that does not succeed logs the client out.
retry_call_Logout(t, lvl) ==
  /\ pc[t] = "retry"
  /\ \E resp \in Replies(Calls[loc[t].idx], lvl, 0) :
       /\ AfterPass(t, loc[t],
                    [obs[t] EXCEPT
                       !.culog = Append(obs[t].culog,
                                        PostReq(Calls[loc[t].idx],
                                                Carried(session_id), "")),
                       !.last = resp, !.posts = obs[t].posts + 1],
                    call_ubus_pass(resp, FALSE))
       /\ session_id' = IF resp.status = 0 /\ resp.body = "result"
                        THEN session_id ELSE 0
       /\ logged_in' = (resp.status = 0 /\ resp.body = "result" /\ logged_in)
  /\ UNCHANGED <<issued, lastAuth>>

\* The retry: call_ubus(call, self._session_id, retry_on_access_denied=False)
\* (zte_api.py:283); its result or exception is the outer call's.
retry_call(t, lvl) ==
  /\ pc[t] = "retry"
  /\ \E resp \in Replies(Calls[loc[t].idx], lvl, 0) :
       AfterPass(t, loc[t],
                 [obs[t] EXCEPT
                    !.culog = Append(obs[t].culog,
                                     PostReq(Calls[loc[t].idx],
                                             Carried(session_id), "")),
                    !.last = resp, !.posts = obs[t].posts + 1],
                 call_ubus_pass(resp, FALSE))
  /\ UNCHANGED <<session_id, logged_in, issued, lastAuth>>

\* The snapshot update_all builds from its four results (zte_api.py:317-328).
Snapshot(res) ==
  LET netinfo == OrEmptyDict(res[1].data)
      derived == _compute_bands_and_bw(netinfo.net)
  IN  [netinfo |-> netinfo, thermal |-> res[2].data, device |-> res[3].data,
       wan |-> res[4].data, bands_summary |-> derived.bands_summary,
       total_bw_mhz |-> derived.total_bw_mhz]

\* update_all derives the band summary and returns; netinfo.get raises
\* AttributeError when the payload is not a mapping (zte_api.py:116).
UpdateAllReturn(t) ==
  /\ pc[t] = "ua_return"
  /\ IF HasGet(OrEmptyDict(loc[t].res[1].data))
     THEN Finish(t, obs[t], "returned", "none", Snapshot(loc[t].res), loc[t].res)
     ELSE Finish(t, obs[t], "raised", "AttributeError", NoSnap, loc[t].res)
  /\ UNCHANGED <<session_id, logged_in, issued, lastAuth>>

\* The steps inside login() and call_ubus, shared by every operation.
Inner(t, lvl) ==
  \/ init_session(t)
  \/ login_info(t, lvl)
  \/ web_login(t, lvl)
  \/ StoreSid(t)
  \/ StoreFlag(t)
  \/ call_ubus(t, lvl)
  \/ ClearFlag(t)
  \/ ClearSid(t)
  \/ retry_call(t, lvl)

\* The intended use: one poll at a time on a client (the coordinator's
\* thread 1), and a host that may also call login() between polls.
Next ==
  \/ UpdateAllStart(1)
  \/ LoginStart(1)
  \/ Inner(1, "full")
  \/ UpdateAllReturn(1)

Spec == Init /\ [][Next]_vars

\* One poll or one call_ubus of the host, followed to its end, on a new
\* client or on one the host has logged in first, with the router ready to
\* hand out a token at every login.
NextWork ==
  \/ obs[1].op = "none" /\ LoginStart(1)
  \/ obs[1].op \in {"none", "login"} /\ UpdateAllStart(1)
  \/ obs[1].op \in {"none", "login"} /\ CallStart(1)
  \/ Inner(1, "work")
  \/ UpdateAllReturn(1)

\* Every request is answered or times out (timeout=10, zte_api.py:160 and
\* 247), so a thread inside an operation takes its next step.
SpecWork ==
  /\ Init /\ [][NextWork]_vars
  /\ WF_vars(Inner(1, "work") \/ UpdateAllReturn(1))

\* Overlapping use of one client: every caller's thread runs login() and
\* call_ubus() on it.  update_all is its login check followed by four such
\* calls, so two polls that overlap are two of their calls that overlap.
NextConc ==
  \E t \in Callers :
    \/ LoginStart(t)
    \/ CallStart(t)
    \/ Inner(t, "core")

SpecConc == Init /\ [][NextConc]_vars

\* ------------------------------------------------------ stateless helpers
\* The band helpers and the sensor's extraction keep no state between calls.
\* Each is called on an argument drawn from the sets below; a second call of
\* a band resolver may follow the first.
client == <<session_id, logged_in, issued, lastAuth, pc, loc, obs>>

\* A call that has not returned yet; a helper returns, or raises.
Pending == [exc |-> "pending", val |-> 0]
Ret(v) == [exc |-> "none", val |-> v]
Exc(e) == [exc |-> e, val |-> 0]
Call(name, arg) == [name |-> name, arg |-> arg, ret |-> Pending]

\* Channel numbers around every bound of a table's ranges, and None.
Bounds(table) ==
  UNION {{table[i][2] - 1, table[i][2], table[i][3], table[i][3] + 1} :
           i \in 1 .. Len(table)}
Channels(table) == {None} \cup {Some(c) : c \in Bounds(table)}
ResolverCalls ==
  {Call("resolve", [table |-> "lte", ch |-> c]) : c \in Channels(lte_bands)}
  \cup {Call("resolve", [table |-> "nr", ch |-> c]) : c \in Channels(nr_bands)}

\* Values of the four fields of a network-info mapping (tenths): 1300 is in
\* LTE band 3, 700 is in no LTE range; 650000 is in NR band 78, 100000 in no
\* NR range.
LteChannelFields ==
  {Missing, Fld("null", 0), Fld("int", 13000), Fld("intstr", 13000),
   Fld("decstr", 13000), Fld("float", 13005), Fld("int", 7000),
   Fld("int", 0), Fld("text", 0)}
NrChannelFields ==
  {Missing, Fld("int", 6500000), Fld("intstr", 6500000),
   Fld("int", 1000000), Fld("int", 0), Fld("text", 0)}
LteBandwidthFields ==
  {Missing, Fld("int", 200), Fld("decstr", 200), Fld("float", 14),
   Fld("int", 0), Fld("int", -50), Fld("text", 0)}
NrBandwidthFields ==
  {Missing, Fld("int", 1000), Fld("intstr", 1000), Fld("int", 0),
   Fld("list", 0)}
NetInfos ==
  {[lte_action_channel |-> a, lte_bandwidth |-> b,
    nr5g_action_channel |-> c, nr5g_bandwidth |-> d] :
     a \in LteChannelFields, b \in LteBandwidthFields,
     c \in NrChannelFields, d \in NrBandwidthFields}
SummarizeCalls == {Call("summarize", netinfo) : netinfo \in NetInfos}

\* ---- sensor.py.  A value of a telemetry field is a Fld; besides the shapes
\* above a string may be
\*   empty ""        blank "  "          dash "-"         paddash " - "
\*   padnum " 12.5 " padtext " abc "     nanstr "nan"     infstr "inf"
\*   SA, ENDC        the two network types the sensor renames
\* and a value may be a JSON boolean (bool).  A number that float() makes is
\* a "float"; NaN and infinity are the values "nan" and "inf".
Null == Fld("null", 0)
Strings ==
  {"intstr", "decstr", "text", "empty", "blank", "dash", "paddash", "padnum",
   "padtext", "nanstr", "infstr", "SA", "ENDC"}

\* str.strip()
Strip(f) ==
  CASE f.k = "blank" -> Fld("empty", 0)
    [] f.k = "paddash" -> Fld("dash", 0)
    [] f.k = "padnum" -> Fld("decstr", f.v)
    [] f.k = "padtext" -> Fld("text", 0)
    [] OTHER -> f

\* float(v) of a stripped string under `except ValueError`: Python's float
\* reads a numeric literal, and also "nan" and "inf".
ParseFloat(v) ==
  CASE v.k \in {"intstr", "decstr"} -> Fld("float", v.v)
    [] v.k = "nanstr" -> Fld("nan", 0)
    [] v.k = "infstr" -> Fld("inf", 0)
    [] OTHER -> Null

\* sensor._as_number(value)
_as_number(value) ==
  IF value.k \in {"null", "missing"} THEN Null
  ELSE IF value.k \in {"int", "float", "bool"} THEN value
  ELSE IF value.k \in Strings
    THEN LET v == Strip(value)
         IN  IF v.k \in {"empty", "dash"} THEN Null ELSE ParseFloat(v)
  ELSE Null

\* A section of the snapshot, as far as one sensor reads it:
\*   t  "null" | "obj" | "emptyobj" | "list" | "emptylist" | "str" |
\*      "emptystr" | "num" | "zero"
\*   f  the field the sensor reads, g the field it falls back to
Sec(t, f, g) == [t |-> t, f |-> f, g |-> g]
NoSec == Sec("null", Missing, Missing)

\* Python truthiness of a section and of a field value.
SecTruthy(sec) == sec.t \in {"obj", "list", "str", "num"}
FldTruthy(f) ==
  CASE f.k \in {"missing", "null", "empty"} -> FALSE
    [] f.k \in {"int", "float", "bool"} -> f.v # 0
    [] OTHER -> TRUE

\* `data.get(section) or {}`, then `.get(field)` on it: AttributeError when
\* the section is a non-empty list or string or a non-zero number.
SecGet(sec, f) ==
  IF ~SecTruthy(sec) THEN Ret(Null)
  ELSE IF sec.t # "obj" THEN Exc("AttributeError")
  ELSE Ret(IF f.k = "missing" THEN Null ELSE f)

\* _as_number of what a section's field holds.
NumberOf(got) == IF got.exc # "none" THEN got ELSE Ret(_as_number(got.val))

\* The sensor keys, one of each kind of branch of _extract_value.
Keys ==
  {"network_provider", "connection_type", "bands_summary", "total_bandwidth",
   "primary_rsrp", "lte_rsrp", "wan_ipv4", "cpu_temp", "uptime", "unknown"}

\* sensor._extract_value(data, key)
_extract_value(data, key) ==
  LET netinfo == data.netinfo
      nt == SecGet(netinfo, netinfo.f)
      first == SecGet(netinfo, netinfo.f)
  IN  CASE key = "network_provider" -> SecGet(netinfo, netinfo.f)
        [] key = "connection_type" ->
             IF nt.exc # "none" THEN nt
             ELSE IF nt.val.k = "SA" THEN Ret(Fld("5G SA", 0))
             ELSE IF nt.val.k = "ENDC" THEN Ret(Fld("5G NSA", 0))
             ELSE nt
        [] key = "bands_summary" -> Ret(data.bands_summary)
        [] key = "total_bandwidth" -> Ret(_as_number(data.total_bw_mhz))
        [] key = "primary_rsrp" ->
             IF first.exc # "none" THEN first
             ELSE IF FldTruthy(first.val) THEN Ret(_as_number(first.val))
             ELSE NumberOf(SecGet(netinfo, netinfo.g))
        [] key = "lte_rsrp" -> NumberOf(SecGet(netinfo, netinfo.f))
        [] key = "wan_ipv4" -> SecGet(data.wan, data.wan.f)
        [] key = "cpu_temp" -> NumberOf(SecGet(data.thermal, data.thermal.f))
        [] key = "uptime" -> NumberOf(SecGet(data.device, data.device.f))
        [] OTHER -> Ret(Null)

\* Field values and sections a successful response can carry.
SensorFields ==
  {Missing, Null, Fld("int", 0), Fld("int", -950), Fld("float", 125),
   Fld("bool", 1), Fld("intstr", -950), Fld("decstr", 125),
   Fld("padnum", 125), Fld("empty", 0), Fld("blank", 0), Fld("dash", 0),
   Fld("paddash", 0), Fld("text", 0), Fld("padtext", 0), Fld("nanstr", 0),
   Fld("infstr", 0), Fld("list", 0), Fld("SA", 0), Fld("ENDC", 0)}
SectionKinds ==
  {"null", "obj", "emptyobj", "list", "emptylist", "str", "emptystr", "num",
   "zero"}
Fallbacks == {Missing, Fld("int", -1000), Fld("text", 0)}
Sections ==
  {Sec(t, f, g) : t \in SectionKinds, f \in SensorFields, g \in Fallbacks}

\* The snapshot in which the section that key reads is sec; update_all
\* makes the two derived entries itself.
SnapshotFor(key, sec) ==
  [netinfo |-> IF key \in {"network_provider", "connection_type",
                           "primary_rsrp", "lte_rsrp"} THEN sec ELSE NoSec,
   thermal |-> IF key = "cpu_temp" THEN sec ELSE NoSec,
   device |-> IF key = "uptime" THEN sec ELSE NoSec,
   wan |-> IF key = "wan_ipv4" THEN sec ELSE NoSec,
   bands_summary |-> Fld("text", 0),
   total_bw_mhz |-> Fld("float", 200)]

\* Payloads of the network-info call that update_all hands to the derivation.
DeriveCalls ==
  {Call("derive", d) :
     d \in {DNet(NetLte), DNet(NoNet), DOther, DEmptyObj, DNull, DList, DEmptyList}}
AsNumberCalls == {Call("_as_number", f) : f \in SensorFields \ {Missing}}
ExtractCalls ==
  {Call("_extract_value", [data |-> SnapshotFor(key, sec), key |-> key]) :
     key \in Keys, sec \in Sections}

InitPure ==
  /\ session_id = 0
  /\ logged_in = FALSE
  /\ issued = 0
  /\ lastAuth = NoAuth
  /\ pc = [t \in Callers |-> "idle"]
  /\ loc = [t \in Callers |-> IdleLoc]
  /\ obs = [t \in Callers |-> IdleObs]
  /\ prev = NoCall
  /\ entry = NoEntry
  /\ api = NoApi
  /\ forms = <<>>
  /\ \/ fn \in ResolverCalls
     \/ fn \in SummarizeCalls
     \/ fn \in AsNumberCalls
     \/ fn \in ExtractCalls
     \/ fn \in DeriveCalls

Returned(r) ==
  /\ fn.ret = Pending
  /\ fn' = [fn EXCEPT !.ret = r]
  /\ UNCHANGED <<client, prev, hass>>

\* self._convert_lte_earfcn_to_band(earfcn)
ResolveLte ==
  /\ fn.name = "resolve" /\ fn.arg.table = "lte"
  /\ Returned(Ret(_convert_lte_earfcn_to_band(fn.arg.ch)))

\* self._convert_nr_arfcn_to_band(arfcn)
ResolveNr ==
  /\ fn.name = "resolve" /\ fn.arg.table = "nr"
  /\ Returned(Ret(_convert_nr_arfcn_to_band(fn.arg.ch)))

\* A band resolver is called once more, after its first call returned.
ResolveAgain ==
  /\ fn.name = "resolve" /\ fn.ret # Pending /\ prev = NoCall
  /\ prev' = fn
  /\ \E c \in ResolverCalls : c.arg.table = fn.arg.table /\ fn' = c
  /\ UNCHANGED <<client, hass>>

\* self._compute_bands_and_bw(netinfo) on a mapping.
Summarize ==
  /\ fn.name = "summarize"
  /\ Returned(Ret(_compute_bands_and_bw(fn.arg)))

\* _as_number(value)
AsNumber ==
  /\ fn.name = "_as_number"
  /\ Returned(Ret(_as_number(fn.arg)))

\* SensorEntity.native_value: _extract_value(coordinator.data, key)
ExtractValue ==
  /\ fn.name = "_extract_value"
  /\ Returned(_extract_value(fn.arg.data, fn.arg.key))

\* update_all: netinfo = netinfo_res.get("data") or {}, then
\* self._compute_bands_and_bw(netinfo), whose first statement calls
\* netinfo.get (zte_api.py:317-318, 116).
Derive ==
  /\ fn.name = "derive"
  /\ Returned(IF HasGet(OrEmptyDict(fn.arg))
              THEN Ret(_compute_bands_and_bw(OrEmptyDict(fn.arg).net))
              ELSE Exc("AttributeError"))

NextPure ==
  \/ ResolveLte
  \/ ResolveNr
  \/ ResolveAgain
  \/ Summarize
  \/ AsNumber
  \/ ExtractValue
  \/ Derive

SpecPure == InitPure /\ [][NextPure]_vars

\* ------------------------------------------------- config entry and options
\* A string the user types is the sequence of its characters.
Whitespace == {" ", "\t"}

\* str.strip(): the string without its leading and trailing whitespace.
RECURSIVE lstrip(_)
lstrip(s) ==
  IF s # <<>> /\ Head(s) \in Whitespace THEN lstrip(Tail(s)) ELSE s

RECURSIVE rstrip(_)
rstrip(s) ==
  IF s # <<>> /\ s[Len(s)] \in Whitespace
  THEN rstrip(SubSeq(s, 1, Len(s) - 1)) ELSE s

strip(s) == rstrip(lstrip(s))

\* const.py
MIN_SCAN_INTERVAL == 5
MAX_SCAN_INTERVAL == 3600

\* Passwords typed into a form: none, blanks, a word, a word between blanks.
TypedPasswords ==
  { <<>>, <<" ">>, <<"\t", " ">>, <<"a">>, <<" ", "b", " ">> }

\* Host, TLS flag and scan interval as typed into a form.
TypedSettings ==
  { [host |-> "http://192.168.0.1", verify_tls |-> FALSE, scan_interval |-> 60],
    [host |-> "https://10.0.0.1", verify_tls |-> TRUE, scan_interval |-> 5],
    [host |-> "http://192.168.0.1", verify_tls |-> TRUE, scan_interval |-> 3600] }

\* What the initial form hands to async_step_user.
UserInputs ==
  { [name |-> "ZTE NG Router", host |-> "http://192.168.8.1", password |-> pw,
     router_type |-> "g5tc", verify_tls |-> FALSE, scan_interval |-> 30] :
      pw \in { <<"o", "l", "d">>, <<" ">> } }

\* What the options form hands to async_step_init.
OptionsInputs ==
  { [host |-> st.host, password |-> pw, verify_tls |-> st.verify_tls,
     scan_interval |-> st.scan_interval] :
      st \in TypedSettings, pw \in TypedPasswords }

\* entry.options is a dict: a key it lacks is the empty set, a key it has is
\* the set of its one value.
NoOptions == [host |-> {}, password |-> {}, verify_tls |-> {},
              scan_interval |-> {}]

\* dict.get(key, default)
OptionsGet(opt, default) == IF opt = {} THEN default ELSE CHOOSE v \in opt : TRUE

\* Mutant: the options flow stores whatever password the form holds.
MergedOptions_Overwrite(existing, user_input) ==
  [host |-> {user_input.host}, password |-> {user_input.password},
   verify_tls |-> {user_input.verify_tls},
   scan_interval |-> {user_input.scan_interval}]

\* The options async_step_init stores: the entry's options with host, TLS
\* flag and scan interval from the form, and the password from the form
\* only if it is not blank (config_flow.py:98-111).
MergedOptions(existing, user_input) ==
  [host |-> {user_input.host},
   password |-> IF strip(user_input.password) # <<>>
                THEN {user_input.password} ELSE existing.password,
   verify_tls |-> {user_input.verify_tls},
   scan_interval |-> {user_input.scan_interval}]

\* ZteNgRouterConfigFlow.async_step_user with a filled form: the entry is
\* created with the form's values as its data and with no options, unless
\* the scan interval is out of range (config_flow.py:36-58).
async_step_user ==
  /\ entry = NoEntry
  /\ \E user_input \in UserInputs :
       IF \/ user_input.scan_interval < MIN_SCAN_INTERVAL
          \/ user_input.scan_interval > MAX_SCAN_INTERVAL
       THEN UNCHANGED entry
       ELSE entry' = [data |-> user_input, options |-> NoOptions]
  /\ UNCHANGED <<client, fn, prev, api, forms>>

\* ZteNgRouterOptionsFlow.async_step_init with a filled form: the merged
\* options become the entry's options (config_flow.py:96-113).
async_step_init ==
  /\ entry # NoEntry
  /\ Len(forms) < MaxSubmissions
  /\ \E user_input \in OptionsInputs :
       /\ entry' = [entry EXCEPT
                      !.options = MergedOptions(entry.options, user_input)]
       /\ forms' = Append(forms, user_input)
  /\ UNCHANGED <<client, fn, prev, api>>

\* async_setup_entry: host, password, TLS flag and scan interval are read
\* from the options, falling back to the data, and the client and the
\* coordinator are built with them (__init__.py:38-80).
async_setup_entry ==
  /\ entry # NoEntry
  /\ api' = [base_url |-> OptionsGet(entry.options.host, entry.data.host),
             password |-> OptionsGet(entry.options.password,
                                     entry.data.password),
             verify_tls |-> OptionsGet(entry.options.verify_tls,
                                       entry.data.verify_tls),
             update_interval |-> OptionsGet(entry.options.scan_interval,
                                            entry.data.scan_interval)]
  /\ UNCHANGED <<client, fn, prev, entry, forms>>

NextFlow ==
  \/ async_step_user
  \/ async_step_init
  \/ async_setup_entry

SpecFlow == Init /\ [][NextFlow]_vars

\* ------------------------------------------------------------ the claims
IsDenied(resp) ==
  resp.http = "ok" /\ resp.body = "error" /\ resp.code = AccessDenied
IsOtherError(resp) ==
  resp.http = "ok" /\ resp.body = "error" /\ resp.code # AccessDenied
IsResult0(resp) ==
  resp.http = "ok" /\ resp.body = "result" /\ resp.status = 0

\* The latest telemetry call_ubus of t has returned or raised.
Done(t) == obs[t].cu \in {"returned", "raised"}

Gets(log) == Cardinality({i \in DOMAIN log : log[i].m = "GET"})
Posts(log, call) ==
  Cardinality({i \in DOMAIN log : log[i].m = "POST" /\ log[i].call = call})
\* Sends of the call the invocation was made for.
Attempts(t) == Posts(obs[t].culog, obs[t].culog[1].call)

\* C1, as stated: a call_ubus whose first attempt is answered -32002 does
\* one init_session and one login and sends the call exactly one more time;
\* a -32002 on the retry ends the call with a failed result.
C1_Original ==
  \A t \in Callers :
    (Done(t) /\ IsDenied(obs[t].first)) =>
      /\ Gets(obs[t].culog) = 1
      /\ Posts(obs[t].culog, "web_login_info") = 1
      /\ Attempts(t) = 2
      /\ (IsDenied(obs[t].last) =>
            obs[t].cu = "returned" /\ obs[t].curesult = Failure)

\* C1, amended: after a -32002 on the first attempt there is one init_session
\* and one login, never more; the call is sent exactly one more time when
\* that re-login succeeded and not again when it failed; a -32002 on the
\* retry starts nothing further and the call returns a failed result.
C1_OneRelogin ==
  \A t \in Callers :
    (obs[t].cu # "none" /\ IsDenied(obs[t].first)) =>
      /\ Gets(obs[t].culog) <= 1
      /\ Posts(obs[t].culog, "web_login_info") <= 1
      /\ Posts(obs[t].culog, "web_login") <= 1
      /\ Attempts(t) <= 2
      /\ Done(t) =>
           /\ Gets(obs[t].culog) = 1
           /\ Posts(obs[t].culog, "web_login_info") = 1
           /\ Attempts(t) = (IF obs[t].relogin = "ok" THEN 2 ELSE 1)
           /\ (obs[t].relogin = "ok" /\ IsDenied(obs[t].last)) =>
                /\ obs[t].cu = "returned"
                /\ obs[t].curesult = Failure
                /\ Len(obs[t].culog) = 5

\* A call whose retry, sent after a successful re-login, was answered -32002.
C1_Witness ==
  \E t \in Callers :
    /\ Done(t) /\ obs[t].relogin = "ok"
    /\ IsDenied(obs[t].first) /\ IsDenied(obs[t].last)
    /\ Attempts(t) = 2

\* C2, as stated: an update_all in which every login attempt that was made
\* failed ends with an error raised, not with a snapshot.
C2_Original ==
  \A t \in Callers :
    (/\ obs[t].op = "update_all" /\ obs[t].outcome.status # "none"
     /\ obs[t].tried /\ ~obs[t].won) =>
      obs[t].outcome.status = "raised"

\* C2, amended: update_all raises, without sending a telemetry request, when
\* the initial login of an unauthenticated client fails, and it returns a
\* snapshot from such a client only after that login succeeded; a re-login
\* that fails inside a telemetry call is not raised: the call returns a
\* failed result.
C2_InitialLogin ==
  \A t \in Callers :
    obs[t].op = "update_all" =>
      /\ obs[t].initial = "failed" =>
           obs[t].outcome.status = "raised" /\ obs[t].culog = <<>>
      /\ (~obs[t].startAuth /\ obs[t].outcome.status = "returned") =>
           obs[t].initial = "ok"
      /\ (Done(t) /\ obs[t].relogin = "failed") =>
           obs[t].cu = "returned" /\ obs[t].curesult = Failure

\* An update_all that raised because its initial login failed.
C2_Witness ==
  \E t \in Callers :
    /\ obs[t].op = "update_all" /\ obs[t].initial = "failed"
    /\ obs[t].outcome.status = "raised"

\* The section of the snapshot that C3 expects for a result.
Section(r) == IF r.success THEN r.data ELSE DNull

\* C3, as stated: on an authenticated client, when all four telemetry calls
\* returned and none was answered -32002 (no login was attempted), update_all
\* returns a snapshot whose sections are the payloads of the calls that
\* succeeded and absent for the calls that failed.
C3_BestEffort ==
  \A t \in Callers :
    (/\ obs[t].op = "update_all" /\ obs[t].startAuth /\ ~obs[t].tried
     /\ Len(obs[t].outcome.res) = Len(Calls)) =>
      /\ obs[t].outcome.status = "returned"
      /\ OrEmptyDict(obs[t].outcome.snap.netinfo)
           = OrEmptyDict(Section(obs[t].outcome.res[1]))
      /\ obs[t].outcome.snap.thermal = Section(obs[t].outcome.res[2])
      /\ obs[t].outcome.snap.device = Section(obs[t].outcome.res[3])
      /\ obs[t].outcome.snap.wan = Section(obs[t].outcome.res[4])

\* C4, as stated: when call_ubus returns and the last response to a request
\* that carried a session token was -32002, the token is absent and the
\* client is not authenticated.
C4_Invalidated ==
  \A t \in Callers :
    (/\ obs[t].cu = "returned" /\ IsDenied(obs[t].last)
     /\ obs[t].culog[Len(obs[t].culog)].sid # Placeholder) =>
      session_id = 0 /\ ~logged_in

\* C5, as stated: call_ubus never raises; it returns success with the data
\* exactly when the response is result [0, data], a failure otherwise.
C5_NeverRaises ==
  \A t \in Callers :
    /\ obs[t].cu # "raised"
    /\ obs[t].cu = "returned" =>
         obs[t].curesult =
           (IF IsResult0(obs[t].last) THEN Result(TRUE, obs[t].last.data)
            ELSE Failure)

\* The callers whose running or finished call_ubus was answered -32002 first.
Denied == {t \in Callers : obs[t].cu # "none" /\ IsDenied(obs[t].first)}

\* C6, as stated: among callers whose call was answered -32002, at most one
\* re-authentication is in flight at any time, and a recovery clears only
\* the token its -32002 was received for, never a token that another login
\* has stored since.
C6_SingleFlight ==
  /\ Cardinality({t \in Denied : obs[t].relogin = "running"}) <= 1
  /\ \A t \in Denied :
       obs[t].wiped # 0 => obs[t].wiped = obs[t].culog[1].sid

\* C7: a call answered with a router error other than -32002 returns a
\* failed result after that one POST: no GET, no login request, no retry.
C7_OtherError ==
  \A t \in Callers :
    (obs[t].cu # "none" /\ IsOtherError(obs[t].first)) =>
      /\ obs[t].cu = "returned"
      /\ obs[t].curesult = Failure
      /\ Len(obs[t].culog) = 1
      /\ obs[t].relogin = "none"

\* A call that returned after a router error other than -32002.
C7_Witness ==
  \E t \in Callers : obs[t].cu = "returned" /\ IsOtherError(obs[t].first)

\* The requests of a full login, by what they call.
FullLogin == <<"/", "web_login_info", "web_login">>
IsPrefix(a, b) == Len(a) <= Len(b) /\ \A i \in DOMAIN a : a[i] = b[i]
Shape(log) == [i \in DOMAIN log |-> log[i].call]
FailedAuth(a) == a.how = "failed" /\ a.ctx \in {"ua", "relogin"}

\* C8: after a login that failed in update_all or in a re-login the client
\* is unauthenticated (until another login stores a session), and the next
\* update_all finds it so and sends GET, web_login_info, web_login, in this
\* order and all three, before any telemetry request.
C8_LoginFromScratch ==
  /\ (FailedAuth(lastAuth) /\ \A t \in Callers : pc[t] # "store_flag") =>
       session_id = 0 /\ ~logged_in
  /\ \A t \in Callers :
       (obs[t].op = "update_all" /\ FailedAuth(obs[t].prevAuth)) =>
         /\ ~obs[t].startAuth
         /\ IsPrefix(Shape(obs[t].prelog), FullLogin)
         /\ obs[t].culog # <<>> =>
              Shape(obs[t].prelog) = FullLogin /\ obs[t].initial = "ok"

\* An update_all that follows a failed re-login and has reached telemetry.
C8_Witness ==
  \E t \in Callers :
    /\ obs[t].op = "update_all" /\ obs[t].prevAuth.how = "failed"
    /\ obs[t].prevAuth.ctx = "relogin" /\ obs[t].culog # <<>>

\* The code of the error a result carries: the dict call_ubus returns has
\* the keys success and data only.
ResultCode(r) == IF "code" \in DOMAIN r THEN r.code ELSE 0

\* C9, as stated: the result returned for a response with an error object
\* carries the error's code, so it differs from a transport failure's.
C9_CarriesCode ==
  \A t \in Callers :
    (obs[t].cu = "returned" /\ obs[t].last.body = "error") =>
      /\ ResultCode(obs[t].curesult) = obs[t].last.code
      /\ obs[t].curesult # Failure

\* The log that holds the requests of the latest login of t.
LoginLog(t) == IF obs[t].relogin = "none" THEN obs[t].prelog ELSE obs[t].culog
SentWebLogin(t) == Posts(LoginLog(t), "web_login") > 0

\* C10: web_login is sent only right after a web_login_info whose response
\* carried a non-empty salt; without a salt login fails and sends no
\* web_login; without ubus_rpc_session in the web_login response login
\* fails; both requests carry the placeholder session whatever the client
\* holds; the token and the flag stay as they were until the end of a login
\* whose two steps succeeded.
C10_LoginOrder ==
  \A t \in Callers :
    /\ \A log \in {obs[t].prelog, obs[t].culog} : \A i \in DOMAIN log :
         /\ log[i].call = "web_login_info" => log[i].sid = Placeholder
         /\ log[i].call = "web_login" =>
              /\ log[i].sid = Placeholder
              /\ i > 1 /\ log[i - 1].call = "web_login_info"
    /\ obs[t].lg.done # "none" =>
         /\ SentWebLogin(t) => obs[t].lg.salt \notin {"absent", ""}
         /\ (pc[t] # "login_info" /\ obs[t].lg.salt \in {"absent", ""}) =>
              obs[t].lg.done = "failed" /\ ~SentWebLogin(t)
         /\ (SentWebLogin(t) /\ obs[t].lg.sid = 0) => obs[t].lg.done = "failed"
         /\ obs[t].lg.done = "ok" => SentWebLogin(t) /\ obs[t].lg.sid # 0
         /\ (pc[t] \in {"login_info", "login_post"} \/ obs[t].lg.done = "failed") =>
              session_id = obs[t].lg.sid0 /\ logged_in = obs[t].lg.flag0
         /\ obs[t].lg.done = "ok" =>
              session_id = obs[t].lg.sid /\ logged_in

\* A login that succeeded on a client that held a token when it started.
C10_Witness ==
  \E t \in Callers :
    /\ obs[t].lg.done = "ok" /\ obs[t].lg.sid0 # 0
    /\ obs[t].lg.sid # obs[t].lg.sid0

\* A technology takes part in the summary: its channel parses to an integer
\* and its bandwidth to a positive number.
Qualifies(channel, bandwidth) ==
  IntOf(channel).ok /\ FloatOf(bandwidth).ok /\ FloatOf(bandwidth).n > 0

\* The ranges of a table that hold channel number n, by their place.
Holding(table, n) ==
  {i \in 1 .. Len(table) : table[i][2] <= n /\ n <= table[i][3]}
InTable(table, n) == Holding(table, n) # {}
FirstHolding(table, n) ==
  CHOOSE i \in Holding(table, n) : \A j \in 1 .. (i - 1) : j \notin Holding(table, n)

\* The label of a technology whose channel field lies in a range of its table.
LabelOf(prefix, table, channel) ==
  prefix \o ToString(table[FirstHolding(table, IntOf(channel).n)][1])

\* The labels of the technologies of net that qualify and have a band, LTE
\* before NR, and the bandwidths of those that qualify.
Labelled(net) ==
  (IF Qualifies(net.lte_action_channel, net.lte_bandwidth)
      /\ InTable(lte_bands, IntOf(net.lte_action_channel).n)
   THEN <<LabelOf("B", lte_bands, net.lte_action_channel)>> ELSE <<>>)
  \o (IF Qualifies(net.nr5g_action_channel, net.nr5g_bandwidth)
         /\ InTable(nr_bands, IntOf(net.nr5g_action_channel).n)
      THEN <<LabelOf("N", nr_bands, net.nr5g_action_channel)>> ELSE <<>>)
Counted(net) ==
  (IF Qualifies(net.lte_action_channel, net.lte_bandwidth)
   THEN FloatOf(net.lte_bandwidth).n ELSE 0)
  + (IF Qualifies(net.nr5g_action_channel, net.nr5g_bandwidth)
     THEN FloatOf(net.nr5g_bandwidth).n ELSE 0)
JoinedWith(labels) ==
  CASE labels = <<>> -> "-"
    [] Len(labels) = 1 -> labels[1]
    [] OTHER -> labels[1] \o " + " \o labels[2]

Summarized == fn.name = "summarize" /\ fn.ret # Pending

\* C11, as stated: every technology whose channel parses to an integer and
\* whose bandwidth parses to a positive number contributes a band label and
\* its bandwidth, every other technology contributes neither.
C11_Original ==
  Summarized =>
    /\ Qualifies(fn.arg.lte_action_channel, fn.arg.lte_bandwidth) =>
         InTable(lte_bands, IntOf(fn.arg.lte_action_channel).n)
    /\ Qualifies(fn.arg.nr5g_action_channel, fn.arg.nr5g_bandwidth) =>
         InTable(nr_bands, IntOf(fn.arg.nr5g_action_channel).n)
    /\ fn.ret.val.bands_summary = JoinedWith(Labelled(fn.arg))
    /\ fn.ret.val.total_bw_mhz = Counted(fn.arg)

\* C11, amended: a technology whose channel parses to an integer and whose
\* bandwidth parses to a positive number adds its bandwidth to the total,
\* and adds its label only when the channel lies in a range of its table;
\* any other technology adds nothing.  The summary joins the labels with
\* " + ", LTE first, and is "-" when there is none.
C11_Summary ==
  Summarized =>
    /\ fn.ret.exc = "none"
    /\ fn.ret.val.bands_summary = JoinedWith(Labelled(fn.arg))
    /\ fn.ret.val.total_bw_mhz = Counted(fn.arg)

\* A summary whose LTE channel is a number in no range: bandwidth, no label.
C11_Witness ==
  /\ Summarized
  /\ Qualifies(fn.arg.lte_action_channel, fn.arg.lte_bandwidth)
  /\ ~InTable(lte_bands, IntOf(fn.arg.lte_action_channel).n)
  /\ fn.ret.val.bands_summary = "-"
  /\ fn.ret.val.total_bw_mhz > 0

\* The fields of the reference vectors, as a number or as a string.
Is1300(f) == f \in {Fld("int", 13000), Fld("intstr", 13000)}
Is20(f) == f \in {Fld("int", 200), Fld("intstr", 200), Fld("decstr", 200)}
Is650000(f) == f \in {Fld("int", 6500000), Fld("intstr", 6500000)}
Is100(f) == f \in {Fld("int", 1000), Fld("intstr", 1000), Fld("decstr", 1000)}
AbsentOrZero(f) ==
  \/ f.k \in {"missing", "null"}
  \/ f.k \in {"int", "float", "intstr", "decstr"} /\ f.v = 0
LteOnly(net) ==
  /\ Is1300(net.lte_action_channel) /\ Is20(net.lte_bandwidth)
  /\ net.nr5g_action_channel = Missing /\ net.nr5g_bandwidth = Missing
LteAndNr(net) ==
  /\ Is1300(net.lte_action_channel) /\ Is20(net.lte_bandwidth)
  /\ Is650000(net.nr5g_action_channel) /\ Is100(net.nr5g_bandwidth)
NothingSet(net) ==
  /\ AbsentOrZero(net.lte_action_channel) /\ AbsentOrZero(net.lte_bandwidth)
  /\ AbsentOrZero(net.nr5g_action_channel) /\ AbsentOrZero(net.nr5g_bandwidth)

\* C12: LTE channel 1300 with bandwidth 20 and no NR fields gives ("B3", 20);
\* with NR channel 650000 and bandwidth 100 as well, ("B3 + N78", 120); all
\* four fields absent or zero gives ("-", 0).  Bandwidths are in tenths.
C12_Vectors ==
  Summarized =>
    /\ LteOnly(fn.arg) =>
         fn.ret = Ret([bands_summary |-> "B3", total_bw_mhz |-> 200])
    /\ LteAndNr(fn.arg) =>
         fn.ret = Ret([bands_summary |-> "B3 + N78", total_bw_mhz |-> 1200])
    /\ NothingSet(fn.arg) =>
         fn.ret = Ret([bands_summary |-> "-", total_bw_mhz |-> 0])

\* The summary of a mapping with both technologies has been computed.
C12_Witness ==
  /\ Summarized /\ LteAndNr(fn.arg)
  /\ fn.ret.val.bands_summary = "B3 + N78"

Resolved == fn.name = "resolve" /\ fn.ret # Pending
TableOf(name) == IF name = "lte" THEN lte_bands ELSE nr_bands

\* C13: a band resolver returns None for an absent channel and for a channel
\* in no range of its table, otherwise the band of the first-listed range
\* that holds the channel (bounds included); a second call with the same
\* channel returns the same.
C13_Resolver ==
  Resolved =>
    /\ fn.ret.exc = "none"
    /\ fn.ret.val =
         (IF ~fn.arg.ch.ok \/ ~InTable(TableOf(fn.arg.table), fn.arg.ch.n)
          THEN None
          ELSE Some(TableOf(fn.arg.table)
                      [FirstHolding(TableOf(fn.arg.table), fn.arg.ch.n)][1]))
    /\ (prev.name = "resolve" /\ prev.arg = fn.arg) => prev.ret = fn.ret

\* A channel that two ranges hold has been resolved twice.
C13_Witness ==
  /\ Resolved /\ fn.arg.ch.ok
  /\ Cardinality(Holding(TableOf(fn.arg.table), fn.arg.ch.n)) > 1
  /\ prev.name = "resolve" /\ prev.arg = fn.arg

\* C14, as stated: the channel resolved lies in at most one range of its
\* table.
C14_NonOverlapping ==
  (Resolved /\ fn.arg.ch.ok) =>
    Cardinality(Holding(TableOf(fn.arg.table), fn.arg.ch.n)) <= 1

\* C15, as stated: update_all's derivation and _extract_value return a
\* value, never raise, whatever the shape of the sections and fields.
C15_Total ==
  (fn.name \in {"derive", "_extract_value"} /\ fn.ret # Pending) =>
    fn.ret.exc = "none"

\* Strings that are not the text of a number.
NonNumeric(f) == f.k \in Strings \ {"intstr", "decstr", "padnum"}

\* C16, as stated: _as_number never raises; None, "", "-" and every
\* non-numeric string, padded or not, give None; "12.5" gives 12.5; a number
\* is returned unchanged.
C16_AsNumber ==
  (fn.name = "_as_number" /\ fn.ret # Pending) =>
    /\ fn.ret.exc = "none"
    /\ (fn.arg.k = "null" \/ NonNumeric(fn.arg)) => fn.ret.val = Null
    /\ fn.arg = Fld("decstr", 125) => fn.ret.val = Fld("float", 125)
    /\ fn.arg.k \in {"int", "float"} => fn.ret.val = fn.arg

\* H(H(password) + salt), H being the uppercase hexadecimal SHA-256 digest.
TwoStage(password, salt) == "H(" \o "H(" \o password \o ")" \o salt \o ")"
OneStage(password, salt) == "H(" \o password \o salt \o ")"

\* C17: every web_login request carries H(H(password) + salt) for the
\* configured password and the salt that the web_login_info response of the
\* same login carried, never H(password + salt) and never with the salt of
\* an earlier login.
C17_TwoStageHash ==
  \A t \in Callers :
    /\ \A log \in {obs[t].prelog, obs[t].culog} : \A i \in DOMAIN log :
         log[i].call = "web_login" =>
           /\ \E salt \in Salts : log[i].pw = TwoStage(Password, salt)
           /\ \A salt \in Salts : log[i].pw # OneStage(Password, salt)
    /\ obs[t].lg.done # "none" =>
         \A i \in DOMAIN LoginLog(t) :
           LoginLog(t)[i].call = "web_login" =>
             LoginLog(t)[i].pw = TwoStage(Password, obs[t].lg.salt)

\* An update_all whose initial login and whose re-login got different salts.
C17_Witness ==
  \E t \in Callers :
    /\ \E i \in DOMAIN obs[t].prelog :
         /\ obs[t].prelog[i].call = "web_login"
         /\ obs[t].prelog[i].pw = TwoStage(Password, "S1")
    /\ \E i \in DOMAIN obs[t].culog :
         /\ obs[t].culog[i].call = "web_login"
         /\ obs[t].culog[i].pw = TwoStage(Password, "S2")

\* C18, as stated: after a -32002, a re-login that fails makes call_ubus
\* return a failed result, without raising, without sending the call again
\* and with the session left unauthenticated; a re-login that succeeds
\* followed by a retry that fails, for any reason, makes call_ubus return a
\* failed result without a further login.
C18_FailedRecovery ==
  \A t \in Callers :
    (Done(t) /\ IsDenied(obs[t].first)) =>
      /\ obs[t].relogin = "failed" =>
           /\ obs[t].cu = "returned" /\ obs[t].curesult = Failure
           /\ Attempts(t) = 1
           /\ session_id = 0 /\ ~logged_in
      /\ (obs[t].relogin = "ok" /\ ~IsResult0(obs[t].last)) =>
           /\ obs[t].cu = "returned" /\ obs[t].curesult = Failure
           /\ Gets(obs[t].culog) = 1
           /\ Posts(obs[t].culog, "web_login") = 1

\* The retry of the latest call of t has been sent: the fifth request, after
\* the first attempt, the GET and the two login requests.
Retried(t) ==
  obs[t].cu # "none" /\ obs[t].relogin = "ok" /\ Len(obs[t].culog) = 5

\* C19: after a -32002 and a successful re-login the retried request is the
\* same call carrying the token that this re-login obtained, which is
\* neither the placeholder nor the token of the first attempt; what
\* call_ubus returns is the retry's result; and the client ends authenticated
\* with the new token.
C19_Transparent ==
  \A t \in Callers :
    /\ (obs[t].cu # "none" /\ obs[t].relogin = "ok") =>
         Len(obs[t].culog) \in {4, 5}
    /\ (Done(t) /\ obs[t].relogin = "ok") => Retried(t)
    /\ Retried(t) =>
         /\ obs[t].culog[5] =
              PostReq(obs[t].culog[1].call, obs[t].lg.sid, obs[t].culog[1].pw)
         /\ obs[t].lg.sid \notin {Placeholder, obs[t].culog[1].sid}
         /\ obs[t].cu = "returned" =>
              obs[t].curesult =
                (IF IsResult0(obs[t].last) THEN Result(TRUE, obs[t].last.data)
                 ELSE Failure)
         /\ session_id = obs[t].lg.sid /\ logged_in

\* A call that succeeded on its retry.
C19_Witness ==
  \E t \in Callers :
    /\ Retried(t) /\ obs[t].cu = "returned" /\ IsDenied(obs[t].first)
    /\ IsResult0(obs[t].last) /\ obs[t].curesult.success

\* The order the specification gives for the telemetry calls: network info,
\* thermal, device info, WAN status.
TelemetryOrder ==
  << "zte_nwinfo_api.nwinfo_get_netinfo", "zwrt_bsp.thermal.get_cpu_temp",
     "zwrt_mc.device.manager.get_device_info", "zwrt_router.api.router_get_status" >>

\* The requests of a login: the GET and the two login POSTs.
LoginRequests(log) ==
  {i \in DOMAIN log : log[i].m = "GET" \/
                      log[i].call \in {"web_login_info", "web_login"}}

\* C20: an update_all that found the client unauthenticated has sent the
\* GET, web_login_info and web_login, in this order, and its login has
\* succeeded before it issues a telemetry call; if that login fails the
\* update_all raises having issued none.  An update_all that found the client
\* authenticated sends no request of its own login, and a GET or a login
\* request appears within a telemetry call only after that call was answered
\* -32002.  The telemetry calls are issued in the order network info,
\* thermal, device info, WAN status, all four when update_all gets to its end.
C20_Ordering ==
  \A t \in Callers : obs[t].op = "update_all" =>
    /\ ~obs[t].startAuth =>
         /\ IsPrefix(Shape(obs[t].prelog), FullLogin)
         /\ obs[t].sent # <<>> =>
              Shape(obs[t].prelog) = FullLogin /\ obs[t].initial = "ok"
         /\ obs[t].initial = "failed" =>
              /\ obs[t].outcome.status = "raised" /\ pc[t] = "idle"
              /\ obs[t].sent = <<>> /\ obs[t].culog = <<>>
    /\ obs[t].startAuth =>
         /\ obs[t].prelog = <<>> /\ obs[t].initial = "none"
         /\ LoginRequests(obs[t].culog) # {} => IsDenied(obs[t].first)
    /\ IsPrefix(obs[t].sent, TelemetryOrder)
    /\ obs[t].culog # <<>> =>
         /\ obs[t].culog[1].call = obs[t].sent[Len(obs[t].sent)]
         /\ obs[t].culog[1].m = "POST"
    /\ pc[t] = "ua_return" => obs[t].sent = TelemetryOrder

\* Both cases: an update_all that logged in first and has issued all four
\* calls, after an earlier one failed its initial login.
C20_Witness ==
  \E t \in Callers :
    /\ obs[t].op = "update_all" /\ ~obs[t].startAuth
    /\ obs[t].prevAuth = [how |-> "failed", ctx |-> "ua"]
    /\ obs[t].sent = TelemetryOrder /\ obs[t].outcome.status = "returned"

\* The ways a call_ubus invocation ends without a result of status 0 and
\* without recovery: transport failure, unparsable response, non-zero
\* status, an error other than -32002, or -32002 with recovery disabled.
EndsInFailure(resp, retry_on_access_denied) ==
  \/ resp.http # "ok"
  \/ resp.http = "ok" /\ resp.body \in {"not_json", "empty_array", "top_object"}
  \/ resp.http = "ok" /\ resp.body = "result" /\ resp.status # 0
  \/ IsOtherError(resp)
  \/ IsDenied(resp) /\ ~retry_on_access_denied

\* The step is one of thread t, taken from location p.
StepOf(t, p) == pc[t] = p /\ obs'[t] # obs[t]

SessionKept == session_id' = session_id /\ logged_in' = logged_in

\* C21: a call_ubus invocation that ends in a transport failure, an
\* unparsable response, a non-zero status, an error other than -32002, or a
\* -32002 with recovery disabled returns a failed result and leaves
\* self._session_id and self._logged_in as they were; so do the two calls
\* login() makes.  The token and the flag change only in the two stores that
\* end a successful login and in the two clears that start the recovery, and
\* the recovery starts only from a first attempt answered -32002.
C21_Frame ==
  [][\A t \in Callers :
       /\ (StepOf(t, "call") /\ EndsInFailure(obs'[t].first, TRUE)) =>
            /\ SessionKept
            /\ obs'[t].cu = "returned" /\ obs'[t].curesult = Failure
       /\ (StepOf(t, "retry") /\ EndsInFailure(obs'[t].last, FALSE)) =>
            /\ SessionKept
            /\ obs'[t].cu = "returned" /\ obs'[t].curesult = Failure
       /\ (StepOf(t, "login_info") \/ StepOf(t, "login_post")) => SessionKept
       /\ (pc'[t] = "clear_flag" /\ pc[t] # "clear_flag") =>
            pc[t] = "call" /\ IsDenied(obs'[t].first)
       /\ (pc'[t] = "store_sid" /\ pc[t] # "store_sid") =>
            pc[t] = "login_post" /\ loc'[t].sid # 0
       /\ ~SessionKept =>
            \E u \in Callers :
              /\ pc[u] \in {"store_sid", "store_flag", "clear_flag", "clear_sid"}
              /\ pc'[u] # pc[u]
    ]_vars

\* An authenticated client whose retry, sent with recovery disabled, was
\* answered -32002 again, and which still holds the token of its re-login.
C21_Witness ==
  \E t \in Callers :
    /\ Retried(t) /\ obs[t].cu = "returned" /\ IsDenied(obs[t].last)
    /\ session_id = obs[t].lg.sid /\ session_id # 0 /\ logged_in

\* The request thread t sends in this step: the one its step appends to its
\* log of the telemetry call or of the login.
SentNow(t) ==
  IF pc[t] \in {"call", "retry"} \/ loc[t].ctx = "relogin"
  THEN obs'[t].culog[Len(obs'[t].culog)]
  ELSE obs'[t].prelog[Len(obs'[t].prelog)]

\* Thread t sends a request in this step.
Sends(t) ==
  \E p \in {"call", "retry", "init_get", "login_info", "login_post"} :
    StepOf(t, p)

\* C22: the session identifier of every request is the placeholder or the
\* token of the most recent successful login (the router's latest token: it
\* hands one out only in the answer that makes a login succeed).  The
\* requests of a login carry the placeholder; a telemetry request sent while
\* the client is unauthenticated carries the placeholder; a retry never
\* carries the token its recovery cleared; and a token that is not the
\* placeholder is the one the client holds.
C22_SessionSent ==
  [][\A t \in Callers : Sends(t) =>
       /\ SentNow(t).sid \in {Placeholder, issued}
       /\ SentNow(t).call \in {"/", "web_login_info", "web_login"} =>
            SentNow(t).sid = Placeholder
       /\ (~logged_in \/ session_id = 0) => SentNow(t).sid = Placeholder
       /\ SentNow(t).sid # Placeholder =>
            SentNow(t).sid = session_id /\ logged_in
       /\ (pc[t] = "retry" /\ obs[t].wiped # 0) =>
            SentNow(t).sid # obs[t].wiped
    ]_vars

\* A telemetry call of update_all sent with the placeholder: the re-login of
\* the call before it failed and left the client unauthenticated.
C22_Witness ==
  \E t \in Callers :
    /\ obs[t].op = "update_all" /\ Len(obs[t].sent) > 1
    /\ obs[t].prevAuth.how = "ok" /\ lastAuth = [how |-> "failed", ctx |-> "relogin"]
    /\ obs[t].cu # "none" /\ obs[t].culog[1].sid = Placeholder
    /\ obs[t].startAuth

\* No step of login() or call_ubus is in progress: every thread is outside
\* an operation, or in update_all between two of its calls or after the last.
Quiet == \A t \in Callers : pc[t] \in {"idle", "call", "ua_return"}

\* C23: whenever no login or call_ubus step is in progress, self._logged_in
\* is true exactly when self._session_id holds a token.
C23_Consistent == Quiet => (logged_in <=> session_id # 0)

\* Both sides: a client left unauthenticated by a failed re-login after it
\* had been authenticated, and one authenticated again by a re-login.
C23_Witness ==
  \E t \in Callers :
    /\ pc[t] = "idle" /\ obs[t].op = "update_all" /\ obs[t].startAuth
    /\ obs[t].won /\ obs[t].relogin = "failed"
    /\ ~logged_in /\ session_id = 0

\* The most one call_ubus invocation sends: the first attempt, the GET and
\* the two requests of one re-login, and one retry.
FullRecovery(call) == <<call, "/", "web_login_info", "web_login", call>>

\* The bounds of C24 on the requests a thread has sent.
C24_Bounds ==
  \A t \in Callers :
    /\ obs[t].culog # <<>> =>
         /\ IsPrefix(Shape(obs[t].culog), FullRecovery(obs[t].culog[1].call))
         /\ Cardinality({i \in DOMAIN obs[t].culog : obs[t].culog[i].m = "POST"})
              <= 4
         /\ Gets(obs[t].culog) <= 1
    /\ IsPrefix(Shape(obs[t].prelog),
                IF obs[t].op = "login" THEN <<"web_login_info", "web_login">>
                ELSE FullLogin)
    /\ obs[t].op = "call_ubus" =>
         obs[t].posts <= 4 /\ obs[t].logins <= 1
    /\ obs[t].op = "login" => obs[t].posts <= 2 /\ obs[t].logins = 1
    /\ obs[t].op = "update_all" =>
         /\ obs[t].posts <= 18 /\ obs[t].logins <= 5
         /\ obs[t].logins <= Len(obs[t].sent) + 1

\* C24: whatever the router answers, one call_ubus sends at most 4 POSTs and
\* 1 GET, in the shape first attempt, GET, web_login_info, web_login, retry
\* (so call_ubus is nested at most two deep and a login never starts a
\* re-login); one update_all makes at most 5 logins and sends at most 18
\* POSTs; and every operation that has started comes to its end.
C24_Bounded ==
  /\ []C24_Bounds
  /\ \A t \in Callers : (pc[t] # "idle") ~> (pc[t] = "idle")

\* A poll that reached both bounds: 5 logins and 18 POSTs.
C24_Witness ==
  \E t \in Callers :
    /\ obs[t].op = "update_all" /\ pc[t] = "idle"
    /\ obs[t].outcome.status \in {"returned", "raised"}
    /\ obs[t].posts = 18 /\ obs[t].logins = 5
    /\ Len(obs[t].culog) = 5

\* A password that is empty or made of whitespace only.
IsBlank(pw) == \A i \in DOMAIN pw : pw[i] \in {" ", "\t"}

\* The most recent password of the submitted forms that is not blank, or
\* the initial one if there is none.
RECURSIVE LatestPassword(_, _)
LatestPassword(fs, initial) ==
  IF fs = <<>> THEN initial
  ELSE IF IsBlank(fs[Len(fs)].password)
    THEN LatestPassword(SubSeq(fs, 1, Len(fs) - 1), initial)
  ELSE fs[Len(fs)].password

\* The password a setup of the entry would use.
StoredPassword(e) == OptionsGet(e.options.password, e.data.password)

\* C25: a setup builds the client with the most recent submitted password
\* that is not blank, or with the initial password if no such submission
\* exists, and, once a form has been submitted, with the host, TLS flag and
\* scan interval of the latest form; a submission with a blank password
\* leaves the stored password as it was, and no submission touches the
\* entry's data.
C25_OptionsPassword ==
  [][/\ api' # api =>
          /\ api'.password = LatestPassword(forms, entry.data.password)
          /\ forms # <<>> =>
               /\ api'.base_url = forms[Len(forms)].host
               /\ api'.verify_tls = forms[Len(forms)].verify_tls
               /\ api'.update_interval = forms[Len(forms)].scan_interval
          /\ forms = <<>> =>
               /\ api'.base_url = entry.data.host
               /\ api'.verify_tls = entry.data.verify_tls
               /\ api'.update_interval = entry.data.scan_interval
     /\ forms' # forms =>
          /\ entry'.data = entry.data
          /\ IsBlank(forms'[Len(forms')].password) =>
               /\ StoredPassword(entry') = StoredPassword(entry)
               /\ entry'.options.password = entry.options.password
          /\ StoredPassword(entry') = LatestPassword(forms', entry.data.password)
    ]_vars

\* A client set up after a password was submitted and then two forms with a
\* blank password: it has the submitted password and the last form's host.
C25_Witness ==
  /\ Len(forms) = 3
  /\ forms[1].password = <<" ", "b", " ">>
  /\ IsBlank(forms[2].password) /\ forms[3].password = <<>>
  /\ forms[3].host = "https://10.0.0.1" /\ forms[2].host # forms[3].host
  /\ api.password = <<" ", "b", " ">> /\ api.base_url = "https://10.0.0.1"
  /\ api.update_interval = 5

====
